---------------------------- MODULE Spec2Model ----------------------------
(***************************************************************************)
(* Model of crates/uv-normalize/src/extra_name.rs: the ExtraName newtype   *)
(* and the DefaultExtras selector with its two-shape (de)serialization.    *)
(*                                                                         *)
(* A string is a sequence of one-character strings.  A document of the     *)
(* self-describing codec is a record [kind, s, elems]; a result of an      *)
(* operation is a record [tag, name, variant, list, err].                  *)
(***************************************************************************)
EXTENDS Naturals, Sequences, FiniteSets

\* Longest scalar string handed to a constructor or deserializer.
MaxLen == 4
\* Largest sequence document: the sum over its elements of (length + 1).
MaxWeight == 4

VARIABLES input, value, prev, op

vars == <<input, value, prev, op>>

---------------------------------------------------------------------------
\* The alphabet.  Lower, Upper, Digits and Separators are the characters
\* a name may hold, Outside stands for every other character.  Chars, the
\* characters the inputs are enumerated over, has representatives of every
\* class; the remaining letters occur in the literal inputs of Scenarios.

Lower == {"a", "b", "f", "l", "o", "r", "z"}
Upper == {"A", "B", "F", "L"}
Digits == {"1"}
Separators == {"-", "_", "."}
Outside == {" "}
Chars == {"a", "l", "A", "L"} \cup Digits \cup Separators \cup Outside

to_ascii_lowercase(c) ==
    CASE c = "A" -> "a"
      [] c = "B" -> "b"
      [] c = "F" -> "f"
      [] c = "L" -> "l"
      [] OTHER -> c

IsAlnum(c) == c \in Lower \cup Upper \cup Digits

all == <<"a", "l", "l">>

---------------------------------------------------------------------------
\* Errors and results.

NoErr == [kind |-> "-", msg |-> "-", arg |-> <<>>]

\* InvalidNameError carries the offending input.
InvalidNameError(name) ==
    [kind |-> "InvalidNameError", msg |-> "-", arg |-> name]

\* serde::de::Error::custom(e) of an InvalidNameError: its Display text,
\* which embeds the offending input.
custom_invalid_name(e) ==
    [kind |-> "custom", msg |-> "InvalidNameError", arg |-> e.arg]

SentinelMsg == "default-extras must be \"all\" or a [\"list\", \"of\", \"extras\"]"

custom_msg(m) == [kind |-> "custom", msg |-> m, arg |-> <<>>]

\* serde::de::Error::invalid_type(unexpected, &visitor): raised by the
\* default visit_* methods a visitor does not override.
invalid_type(unexp, expecting) ==
    [kind |-> "invalid_type", msg |-> expecting, arg |-> <<unexp>>]

None == [tag |-> "none", name |-> <<>>, variant |-> "-", list |-> <<>>, err |-> NoErr]
Err(e) == [tag |-> "err", name |-> <<>>, variant |-> "-", list |-> <<>>, err |-> e]
ExtraName(s) == [tag |-> "name", name |-> s, variant |-> "-", list |-> <<>>, err |-> NoErr]
All == [tag |-> "extras", name |-> <<>>, variant |-> "All", list |-> <<>>, err |-> NoErr]
List(v) == [tag |-> "extras", name |-> <<>>, variant |-> "List", list |-> v, err |-> NoErr]

\* Result::map_err with serde::de::Error::custom, on a constructor's result
map_err_custom(r) == IF r.tag = "err" THEN Err(custom_invalid_name(r.err)) ELSE r

---------------------------------------------------------------------------
\* The normalizer (crate::validate_and_normalize_ref), an external
\* collaborator of this file: lowercase, collapse runs of separators to a
\* single '-', reject empty input, foreign characters and names that do
\* not begin and end with an alphanumeric.

RECURSIVE normalize_from(_, _)
normalize_from(name, i) ==
    IF i > Len(name) THEN <<>>
    ELSE IF name[i] \in Separators
         THEN IF i > 1 /\ name[i - 1] \in Separators
              THEN normalize_from(name, i + 1)
              ELSE <<"-">> \o normalize_from(name, i + 1)
         ELSE <<to_ascii_lowercase(name[i])>> \o normalize_from(name, i + 1)

validate_and_normalize_ref(name) ==
    IF name = <<>> THEN Err(InvalidNameError(name))
    ELSE IF \E i \in 1..Len(name) : ~IsAlnum(name[i]) /\ name[i] \notin Separators
         THEN Err(InvalidNameError(name))
    ELSE IF ~IsAlnum(name[1]) \/ ~IsAlnum(name[Len(name)])
         THEN Err(InvalidNameError(name))
    ELSE ExtraName(normalize_from(name, 1))

---------------------------------------------------------------------------
\* ExtraName.

\* Mutant of from_owned: the owned string is validated and then kept as
\* it was given.
from_owned_keeps_input(name) ==
    IF validate_and_normalize_ref(name).tag = "err"
    THEN validate_and_normalize_ref(name)
    ELSE ExtraName(name)

\* Mutant of from_owned: the owned string is normalized without being
\* validated.
from_owned_skips_validation(name) == ExtraName(normalize_from(name, 1))

from_owned(name) == validate_and_normalize_ref(name)

\* Mutant of from_str: the name is validated and lowercased, its runs of
\* separators kept as they are.
from_str_lowercases_only(name) ==
    IF validate_and_normalize_ref(name).tag = "err"
    THEN validate_and_normalize_ref(name)
    ELSE ExtraName([i \in 1..Len(name) |-> to_ascii_lowercase(name[i])])

from_str(name) == validate_and_normalize_ref(name)

as_str(x) == x.name

ExpectingName == "a string"

\* Visitor::visit_str
name_visit_str(v) == map_err_custom(from_str(v))

\* Mutant of name_visit_string: the error of from_owned is dropped and
\* the raw string wrapped instead.
name_visit_string_unchecked(v) ==
    IF from_owned(v).tag = "err" THEN ExtraName(v) ELSE from_owned(v)

\* Visitor::visit_string
name_visit_string(v) == map_err_custom(from_owned(v))

\* <ExtraName as Deserialize>::deserialize on one codec value: the codec
\* hands a string to visit_str or to visit_string (owned); every other kind
\* reaches a visit_* method the visitor leaves at its default.
deserialize_name(d, owned) ==
    IF d.kind = "str"
    THEN IF owned THEN name_visit_string(d.s) ELSE name_visit_str(d.s)
    ELSE Err(invalid_type(d.kind, ExpectingName))

---------------------------------------------------------------------------
\* Documents of the codec.

Str(s) == [kind |-> "str", s |-> s, elems |-> <<>>]
SeqDoc(es) == [kind |-> "seq", s |-> <<>>, elems |-> es]
Scalar(k) == [kind |-> k, s |-> <<>>, elems |-> <<>>]

\* <ExtraName as Serialize>::serialize (derived on the newtype): the
\* wrapped string.
serialize_name(x) == Str(as_str(x))

---------------------------------------------------------------------------
\* DefaultExtras.

ExpectingExtras == "the string \"all\" or a list of strings"

\* <DefaultExtras as Serialize>::serialize
RECURSIVE serialize_elements(_, _)
serialize_elements(extras, i) ==
    IF i > Len(extras) THEN <<>>
    ELSE <<serialize_name(ExtraName(extras[i]))>> \o serialize_elements(extras, i + 1)

\* Mutant of serialize: "a list of marker strings" taken literally, All
\* emitted as the one-element sequence ["all"].
serialize_always_list(d) ==
    IF d.variant = "All"
    THEN SeqDoc(<<Str(all)>>)
    ELSE SeqDoc(serialize_elements(d.list, 1))

serialize(d) ==
    IF d.variant = "All"
    THEN Str(all)
    ELSE SeqDoc(serialize_elements(d.list, 1))

\* Mutant of visit_str: the sentinel is matched without regard to case.
visit_str_ignores_case(v) ==
    IF [i \in 1..Len(v) |-> to_ascii_lowercase(v[i])] # all
    THEN Err(custom_msg(SentinelMsg))
    ELSE All

\* StringOrVecVisitor::visit_str
visit_str(v) ==
    IF v # all
    THEN Err(custom_msg(SentinelMsg))
    ELSE All

\* Mutant of visit_seq_loop: an element already collected is not pushed
\* again.
RECURSIVE visit_seq_loop_dedups(_, _, _, _)
visit_seq_loop_dedups(elems, i, extras, owned) ==
    IF i > Len(elems) THEN List(extras)
    ELSE LET elem == deserialize_name(elems[i], owned)
         IN  IF elem.tag = "err"
             THEN elem
             ELSE IF \E j \in 1..Len(extras) : extras[j] = elem.name
                  THEN visit_seq_loop_dedups(elems, i + 1, extras, owned)
                  ELSE visit_seq_loop_dedups(elems, i + 1, Append(extras, elem.name), owned)

\* Mutant of visit_seq_loop: an element that fails to parse is skipped
\* instead of ending the loop with its error.
RECURSIVE visit_seq_loop_skips_invalid(_, _, _, _)
visit_seq_loop_skips_invalid(elems, i, extras, owned) ==
    IF i > Len(elems) THEN List(extras)
    ELSE LET elem == deserialize_name(elems[i], owned)
         IN  IF elem.tag = "err"
             THEN visit_seq_loop_skips_invalid(elems, i + 1, extras, owned)
             ELSE visit_seq_loop_skips_invalid(elems, i + 1, Append(extras, elem.name), owned)

\* StringOrVecVisitor::visit_seq: the loop over seq.next_element::<ExtraName>()?
\* with the elements collected so far in extras.
RECURSIVE visit_seq_loop(_, _, _, _)
visit_seq_loop(elems, i, extras, owned) ==
    IF i > Len(elems) THEN List(extras)
    ELSE LET elem == deserialize_name(elems[i], owned)
         IN  IF elem.tag = "err"
             THEN elem
             ELSE visit_seq_loop(elems, i + 1, Append(extras, elem.name), owned)

\* Mutant of visit_seq: the one-element sequence ["all"] is taken for the
\* sentinel.
visit_seq_sentinel_in_list(elems, owned) ==
    IF elems = <<Str(all)>> THEN All ELSE visit_seq_loop(elems, 1, <<>>, owned)

visit_seq(elems, owned) == visit_seq_loop(elems, 1, <<>>, owned)

\* Mutant of deserialize: a null input is read as "nothing configured",
\* the default value.
deserialize_null_is_default(d, owned) ==
    IF d.kind = "str" THEN visit_str(d.s)
    ELSE IF d.kind = "seq" THEN visit_seq(d.elems, owned)
    ELSE IF d.kind = "null" THEN List(<<>>)
    ELSE Err(invalid_type(d.kind, ExpectingExtras))

\* <DefaultExtras as Deserialize>::deserialize: deserialize_any dispatches on
\* the kind of the input; StringOrVecVisitor overrides visit_str and
\* visit_seq only.
deserialize(d, owned) ==
    IF d.kind = "str" THEN visit_str(d.s)
    ELSE IF d.kind = "seq" THEN visit_seq(d.elems, owned)
    ELSE Err(invalid_type(d.kind, ExpectingExtras))

\* <DefaultExtras as Default>::default
default == List(<<>>)

---------------------------------------------------------------------------
\* The inputs.

StrsOfLen(n) ==
    IF n = 0 THEN {<<>>}
    ELSE [1..n -> Chars]

OtherKinds == {"num", "bool", "null", "map"}
ElemOtherKinds == {"num", "map"}

\* The elements of weight w: the strings of length w - 1 and, at weight 1,
\* the values that are no strings.
ElemsOfWeight(w) ==
    {Str(s) : s \in StrsOfLen(w - 1)}
        \cup (IF w = 1 THEN {Scalar(k) : k \in ElemOtherKinds} ELSE {})

RECURSIVE SeqsOfWeight(_)
SeqsOfWeight(n) ==
    IF n = 0 THEN {<<>>}
    ELSE UNION {{<<e>> \o r : e \in ElemsOfWeight(w), r \in SeqsOfWeight(n - w)} : w \in 1..n}

\* Literal inputs longer than the enumerated ones.
Scenarios ==
    { Str(<<"F", "o", "o", "_", "_", "B", "a", "r", ".", "-", "-", "b", "a", "z">>),
      Str(<<"f", "o", "o", "-", "b", "a", "r", "-", "b", "a", "z">>),
      Str(<<"a", "l", "l", " ", "f", "o", "r">>),
      SeqDoc(<<Str(<<"F", "o", "o">>), Str(<<"b", "a", "r", "_", "b", "a", "z">>)>>),
      SeqDoc(<<Str(<<"f", "o", "o">>), Str(<<"F", "o", "o">>), Str(<<"f", "o", "o">>)>>),
      SeqDoc(<<Str(<<"f", "o", "o">>), Str(<<"b", " ", "r">>), Str(<<"b", "a", "z">>)>>) }

---------------------------------------------------------------------------
\* The state machine: input is the document (or string) at hand, value the
\* result of the last construction or deserialization of it, prev the
\* value whose serialization (or as_str) produced input, op the last
\* operation.

Init ==
    /\ \/ \E n \in 0..MaxLen : \E s \in StrsOfLen(n) : input = Str(s)
       \/ \E n \in 0..MaxWeight : \E es \in SeqsOfWeight(n) : input = SeqDoc(es)
       \/ \E k \in OtherKinds : input = Scalar(k)
       \/ input \in Scenarios
    /\ value = None
    /\ prev = None
    /\ op = "init"

FromStr ==
    /\ value = None
    /\ input.kind = "str"
    /\ value' = from_str(input.s)
    /\ op' = "from_str"
    /\ UNCHANGED <<input, prev>>

FromOwned ==
    /\ value = None
    /\ input.kind = "str"
    /\ value' = from_owned(input.s)
    /\ op' = "from_owned"
    /\ UNCHANGED <<input, prev>>

DeserializeName ==
    /\ value = None
    /\ \E owned \in BOOLEAN :
          /\ value' = deserialize_name(input, owned)
          /\ op' = IF owned THEN "visit_string" ELSE "visit_str"
    /\ UNCHANGED <<input, prev>>

DeserializeExtras ==
    /\ value = None
    /\ \E owned \in BOOLEAN : value' = deserialize(input, owned)
    /\ op' = "deserialize"
    /\ UNCHANGED <<input, prev>>

Default ==
    /\ value = None
    /\ value' = default
    /\ op' = "default"
    /\ UNCHANGED <<input, prev>>

AsStr ==
    /\ value.tag = "name"
    /\ input' = Str(as_str(value))
    /\ prev' = value
    /\ value' = None
    /\ op' = "as_str"

SerializeName ==
    /\ value.tag = "name"
    /\ input' = serialize_name(value)
    /\ prev' = value
    /\ value' = None
    /\ op' = "serialize_name"

SerializeExtras ==
    /\ value.tag = "extras"
    /\ input' = serialize(value)
    /\ prev' = value
    /\ value' = None
    /\ op' = "serialize"

Next ==
    \/ FromStr
    \/ FromOwned
    \/ DeserializeName
    \/ DeserializeExtras
    \/ Default
    \/ AsStr
    \/ SerializeName
    \/ SerializeExtras

Spec == Init /\ [][Next]_vars

TypeOK ==
    /\ input.kind \in {"str", "seq"} \cup OtherKinds
    /\ value.tag \in {"none", "name", "extras", "err"}
    /\ prev.tag \in {"none", "name", "extras"}

---------------------------------------------------------------------------
\* Vocabulary of the properties.

\* An element the ExtraName deserializer accepts.
Accepted(e) == e.kind = "str" /\ validate_and_normalize_ref(e.s).tag = "name"

\* The error the ExtraName deserializer reports for a rejected element.
ElemError(e) ==
    IF e.kind = "str"
    THEN [kind |-> "custom", msg |-> "InvalidNameError", arg |-> e.s]
    ELSE [kind |-> "invalid_type", msg |-> "a string", arg |-> <<e.kind>>]

FirstRejected(elems) ==
    CHOOSE i \in 1..Len(elems) :
        ~Accepted(elems[i]) /\ \A j \in 1..(i - 1) : Accepted(elems[j])

\* s is a fixed point of the normalizer.
Canonical(s) == validate_and_normalize_ref(s) = ExtraName(s)

\* The inputs the normalization rule rejects.
Rejected(s) ==
    \/ s = <<>>
    \/ \E i \in 1..Len(s) : s[i] \notin Lower \cup Upper \cup Digits \cup Separators
    \/ s[1] \notin Lower \cup Upper \cup Digits
    \/ s[Len(s)] \notin Lower \cup Upper \cup Digits

\* The normalization rule in two passes: every character lowercased and
\* every separator turned into '-', then every '-' that another '-'
\* follows dropped.
Mapped(s) ==
    [i \in 1..Len(s) |-> IF s[i] \in Separators THEN "-" ELSE to_ascii_lowercase(s[i])]

RECURSIVE DropRepeated(_, _)
DropRepeated(m, i) ==
    IF i > Len(m) THEN <<>>
    ELSE IF m[i] = "-" /\ i < Len(m) /\ m[i + 1] = "-"
         THEN DropRepeated(m, i + 1)
         ELSE <<m[i]>> \o DropRepeated(m, i + 1)

Collapsed(s) == DropRepeated(Mapped(s), 1)

---------------------------------------------------------------------------
\* The properties.

\* C1: deserializing the serialization of a DefaultExtras value d succeeds
\* and yields d again: All as All, List(empty) as List(empty), any other
\* list with its order and its duplicates.
C1_RoundTrip ==
    (op = "deserialize" /\ prev.tag = "extras") => value = prev

C1_Witness ==
    /\ op = "deserialize"
    /\ prev = List(<<<<"f", "o", "o">>, <<"f", "o", "o">>, <<"f", "o", "o">>>>)
    /\ input = SeqDoc(<<Str(<<"f", "o", "o">>), Str(<<"f", "o", "o">>), Str(<<"f", "o", "o">>)>>)
    /\ value = prev

\* C2: the DefaultExtras deserializer yields All exactly for the scalar
\* string "all"; no sequence yields All, and the sequence ["all"] yields
\* the list of the one name "all".
C2_SentinelOnlyAsScalar ==
    op = "deserialize" =>
        /\ (value = All) <=> (input = Str(all))
        /\ input.kind = "seq" => value # All
        /\ input = SeqDoc(<<Str(all)>>) => value = List(<<all>>)

C2_Witness ==
    /\ op = "deserialize"
    /\ input = SeqDoc(<<Str(all)>>)
    /\ value = List(<<all>>)

\* C3: every scalar string other than exactly "all" makes the DefaultExtras
\* deserializer fail with the fixed message; it yields neither All nor a
\* List.
C3_OtherStringFails ==
    (op = "deserialize" /\ input.kind = "str" /\ input.s # all) =>
        /\ value.tag = "err"
        /\ value.err.kind = "custom"
        /\ value.err.msg = "default-extras must be \"all\" or a [\"list\", \"of\", \"extras\"]"

C3_Witness ==
    /\ op = "deserialize"
    /\ input = Str(<<"A", "L", "L">>)
    /\ value.tag = "err"
    /\ value.err.msg = SentinelMsg

\* C4: a sequence whose elements the normalizer all accepts deserializes to
\* List(v) with v as long as the input and v[i] the normalized form of
\* element i: order kept, duplicates kept.
C4_SeqElementwise ==
    (op = "deserialize" /\ input.kind = "seq"
        /\ \A i \in 1..Len(input.elems) : Accepted(input.elems[i])) =>
        /\ value.tag = "extras"
        /\ value.variant = "List"
        /\ Len(value.list) = Len(input.elems)
        /\ \A i \in 1..Len(input.elems) :
              value.list[i] = validate_and_normalize_ref(input.elems[i].s).name

C4_Witness ==
    /\ op = "deserialize"
    /\ input = SeqDoc(<<Str(<<"A">>), Str(<<"a">>)>>)
    /\ value = List(<<<<"a">>, <<"a">>>>)

\* C5: a sequence with an element the ExtraName deserializer rejects (an
\* invalid name, or no string) fails as a whole, with the error of the
\* first such element; no List of the other elements is returned.
C5_SeqFailsAsAWhole ==
    (op = "deserialize" /\ input.kind = "seq"
        /\ \E i \in 1..Len(input.elems) : ~Accepted(input.elems[i])) =>
        /\ value.tag = "err"
        /\ value.err = ElemError(input.elems[FirstRejected(input.elems)])

C5_Witness ==
    /\ op = "deserialize"
    /\ input = SeqDoc(<<Str(<<"a">>), Str(<<"-">>)>>)
    /\ value.tag = "err"
    /\ value.err.arg = <<"-">>

\* C6: an input that is neither a string nor a sequence (number, map, null,
\* boolean) makes the DefaultExtras deserializer fail.
C6_OtherKindFails ==
    (op = "deserialize" /\ input.kind \notin {"str", "seq"}) =>
        /\ value.tag = "err"
        /\ value.err.kind = "invalid_type"

C6_Witness ==
    /\ op = "deserialize"
    /\ input = Scalar("null")
    /\ value.tag = "err"

\* C7: from_str of the string of a valid ExtraName x succeeds and returns x.
C7_Idempotent ==
    (op = "from_str" /\ prev.tag = "name") => value = prev

C7_Witness ==
    /\ op = "from_str"
    /\ prev = ExtraName(<<"a", "-", "l">>)
    /\ input = Str(<<"a", "-", "l">>)
    /\ value = prev

\* C8: from_str rejects with InvalidNameError every input that is empty,
\* holds a character other than a letter, a digit, '-', '_' and '.', or
\* does not begin and end with an alphanumeric; of any other input it
\* returns the lowercased form with every maximal run of separators
\* collapsed to a single '-'.
C8_NormalizationRule ==
    op = "from_str" =>
        IF Rejected(input.s)
        THEN /\ value.tag = "err"
             /\ value.err.kind = "InvalidNameError"
             /\ value.err.arg = input.s
        ELSE /\ value.tag = "name"
             /\ value.name = Collapsed(input.s)
             /\ \A i \in 1..Len(value.name) :
                   /\ value.name[i] \in Lower \cup Digits \cup {"-"}
                   /\ (i > 1 /\ value.name[i] = "-") => value.name[i - 1] # "-"

C8_Witness ==
    /\ op = "from_str"
    /\ input = Str(<<"F", "o", "o", "_", "_", "B", "a", "r", ".", "-", "-", "b", "a", "z">>)
    /\ value = ExtraName(<<"f", "o", "o", "-", "b", "a", "r", "-", "b", "a", "z">>)

\* C9: every ExtraName there is, alone or as an element of a List, holds a
\* fixed point of the normalizer, and so does every string a serializer
\* emits for one.
C9_AlwaysCanonical ==
    /\ value.tag = "name" => Canonical(value.name)
    /\ prev.tag = "name" => Canonical(prev.name)
    /\ value.tag = "extras" => \A i \in 1..Len(value.list) : Canonical(value.list[i])
    /\ prev.tag = "extras" => \A i \in 1..Len(prev.list) : Canonical(prev.list[i])
    /\ op \in {"as_str", "serialize_name"} => Canonical(input.s)
    /\ (op = "serialize" /\ input.kind = "seq") =>
          \A i \in 1..Len(input.elems) :
              input.elems[i].kind = "str" /\ Canonical(input.elems[i].s)

C9_Witness ==
    /\ op = "serialize"
    /\ prev = List(<<<<"a", "-", "a">>>>)
    /\ input = SeqDoc(<<Str(<<"a", "-", "a">>)>>)

\* C10: from_owned and from_str agree on every string, both failing with
\* InvalidNameError or both succeeding with equal values, and so do the
\* deserializer's visit_string and visit_str.
C10_OwnedEquivalent ==
    /\ op = "from_owned" => value = from_str(input.s)
    /\ op = "from_str" => value = from_owned(input.s)
    /\ (op = "visit_string" /\ input.kind = "str") => value = name_visit_str(input.s)
    /\ (op = "visit_str" /\ input.kind = "str") => value = name_visit_string(input.s)

C10_Witness ==
    /\ op = "from_owned"
    /\ input = Str(<<"A", "_", ".", "l">>)
    /\ value = ExtraName(<<"a", "-", "l">>)

=============================================================================
